---- MODULE Spec2Model ----
(***************************************************************************)
(* Device sync ingestion (POST /api/bon/sync), phone registration          *)
(* (POST /api/phone-auth) and the sale detail read                         *)
(* (GET /api/bon/ventes/:num_bon) of server/index.js, over a MySQL store.  *)
(*                                                                         *)
(* The committed tables are the variables clients, phones, locations,      *)
(* headers and items.  A request that runs inside a transaction keeps its  *)
(* uncommitted writes in its own overlay (req[s].ov); a row written by an   *)
(* open transaction is locked until that transaction commits or rolls      *)
(* back, and a statement of another request that writes the same row waits. *)
(* A statement issued outside a transaction (pool.query) is applied to the *)
(* committed tables at once.                                               *)
(*                                                                         *)
(* JSON objects are functions from the field names that are present to     *)
(* string values; a missing field is a name outside the DOMAIN.            *)
(***************************************************************************)
EXTENDS Integers, Sequences, FiniteSets, TLC

\* ------------------------------------------------------------------ bounds
\* Requests (sync batches and phone-auth calls) received in one behaviour when
\* the server handles them one after the other (Spec).
MaxRequests == 2

\* Requests received in one behaviour when they may overlap (SpecConc).
MaxConcRequests == 2

\* Requests received in one behaviour when they may overlap and a committed
\* request precedes the overlapping ones (SpecLong).
MaxLongRequests == 3

\* Requests that may be in flight at the same time.
Slots == {1, 2}

\* ------------------------------------------------------- SQL / JS literals
NULL == "NULL"
\* createPool({ waitForConnections: true, connectionLimit: 10 })
connectionLimit == 10
FallbackUsername == "device_sync"
DefaultPhoneName == "Device"
Fams == {"BON1", "BON1_TEMP"}
\* NUM_BON values a table can hold ("" is a legal key the handler never writes).
Keys == {"", "N1", "N2"}

\* ---------------------------------------------------------- JSON helpers
Has(o, f) == f \in DOMAIN o
\* JS truthiness of a string-valued field: missing and "" are falsy.
Truthy(o, f) == Has(o, f) /\ o[f] # ""
\* o.f || null
OrNull(o, f) == IF Truthy(o, f) THEN o[f] ELSE NULL
\* o.f ?? d
Nullish(o, f, d) == IF Has(o, f) THEN o[f] ELSE d

\* ------------------------------------------------------------ input pools
HFull == [CODE_CLIENT |-> "C1", TOT_HT |-> "100", LATITUDE |-> "36",
          LIVRER |-> "1", CODE_DEPOT |-> "DEP1"]
HBare == [CODE_CLIENT |-> "", TOT_HT |-> "0"]
LFull == [CODE_BARRE |-> "X", QTE |-> "2", CODE_DEPOT |-> "DEP2"]
LBare == [CODE_BARRE |-> "Y"]

Hdr(n, body) == ("NUM_BON" :> n) @@ body
Doc(h, its) == [header |-> h, items |-> its]

DocA(n) == Doc(Hdr(n, HFull), <<LFull, LBare>>)
DocB(n) == Doc(Hdr(n, HBare), <<LBare>>)
\* a document whose header carries no document number at all
DocNoNum == Doc(HFull, <<LFull>>)
\* a document whose document number is the empty string
DocEmptyNum == Doc(Hdr("", HBare), <<LBare>>)

DocLists ==
  { [bon1 |-> <<>>, bon1_temp |-> <<>>],
    [bon1 |-> <<DocA("N1")>>, bon1_temp |-> <<>>],
    [bon1 |-> <<DocB("N1")>>, bon1_temp |-> <<>>],
    [bon1 |-> <<DocA("N1"), DocNoNum, DocB("N2")>>, bon1_temp |-> <<DocB("N1")>>],
    [bon1 |-> <<DocB("N1"), DocA("N1")>>, bon1_temp |-> <<>>],
    [bon1 |-> <<>>, bon1_temp |-> <<DocEmptyNum, DocA("N1")>>] }

DeviceObjs ==
  { [device_id |-> "d1", name |-> "Nm", latitude |-> "36", longitude |-> "3"],
    [phone_id |-> "d2", latitude |-> "36"],
    [device_id |-> "d1"] }

NoIdDeviceObjs == { [name |-> "Nm", latitude |-> "36", longitude |-> "3"],
                    [device_id |-> "", latitude |-> "36", longitude |-> "3"] }

\* req.body of POST /api/bon/sync
Payloads ==
  { [device |-> d, bon1 |-> l.bon1, bon1_temp |-> l.bon1_temp] :
      d \in DeviceObjs, l \in DocLists }
  \cup
  { [device |-> d, bon1 |-> <<DocA("N1")>>, bon1_temp |-> <<>>] : d \in NoIdDeviceObjs }

\* The batches sent while requests overlap.
ConcPayloads ==
  { [device |-> [device_id |-> "d1", latitude |-> "36", longitude |-> "3"],
     bon1 |-> <<DocA("N1")>>, bon1_temp |-> <<>>],
    [device |-> [device_id |-> "d1"], bon1 |-> <<DocB("N1")>>, bon1_temp |-> <<>>],
    [device |-> [phone_id |-> "d2", latitude |-> "36"],
     bon1 |-> <<DocB("N1")>>, bon1_temp |-> <<DocA("N1")>>] }

\* req.body of POST /api/phone-auth
AuthBodies ==
  { [username |-> "alice", password |-> "pw", phone_id |-> "d1", device_name |-> " Nm2 "],
    [username |-> "bob", password |-> "pw", phone_id |-> "d1", device_name |-> "  "],
    [username |-> "alice", password |-> "pw", phone_id |-> "d1", device_name |-> "Tab"],
    [email |-> "alice@x", password |-> "pw", phone_id |-> "d2"],
    [username |-> "alice", password |-> "bad", phone_id |-> "d1"],
    [username |-> "carol", password |-> "pw", phone_id |-> "d1"],
    [username |-> "zed", password |-> "pw", phone_id |-> "d1"],
    [username |-> "alice", phone_id |-> "d1"] }

ConcAuthBodies ==
  { [username |-> "alice", password |-> "pw", phone_id |-> "d1", device_name |-> " Nm2 "],
    [username |-> "bob", password |-> "pw", phone_id |-> "d1", device_name |-> "  "],
    [username |-> "alice", password |-> "pw", phone_id |-> "d1", device_name |-> "Tab"] }

\* req.params.num_bon of GET /api/bon/ventes/:num_bon
ReadNumbers == {"N1", "N2"}
ConcReadNumbers == {"N1"}

VARIABLES
  concurrent,  \* may requests overlap in this behaviour
  limit,       \* requests received in this behaviour at most
  leased,      \* connections out of the pool (acquired and not released)
  clients,     \* committed table clients: set of rows
  phones,      \* committed table phones: phone_id -> row (DOMAIN = rows present)
  locations,   \* committed table locations: rows in insertion order
  headers,     \* committed BON1 / BON1_TEMP: family -> (NUM_BON -> rows with that number)
  items,       \* committed BON2 / BON2_TEMP: family -> (NUM_BON -> rows by RECORDID)
  usernameUnique, \* does the schema declare clients.username UNIQUE
  autoInc,     \* AUTO_INCREMENT counter of clients.client_id
  req,         \* the request handled in each slot
  now,         \* requests received so far (the clock behind NOW())
  commits,     \* transactions committed so far
  lastSync,    \* history: per family and NUM_BON, the document of the latest committed batch
  okLog,       \* history: the last two committed batches, the latest first
  syncLog      \* history: the device objects of the committed batches, in commit order

dbvars == <<clients, phones, locations, headers, items>>
hist == <<lastSync, okLog, syncLog>>
vars == <<concurrent, limit, leased, clients, phones, locations, headers, items, usernameUnique, autoInc, req, now, commits, hist>>


\* ------------------------------------------------------------ the store
DB == [clients |-> clients, phones |-> phones, locations |-> locations,
       headers |-> headers, items |-> items]

\* No uncommitted write.
NoWrites == [clients |-> {}, phones |-> <<>>, locations |-> <<>>,
             headers |-> [f \in Fams |-> <<>>], items |-> [f \in Fams |-> <<>>]]

\* The tables db with the writes w applied on top.
Merge(db, w) ==
  [clients |-> db.clients \cup w.clients,
   phones |-> w.phones @@ db.phones,
   locations |-> db.locations \o w.locations,
   headers |-> [f \in Fams |-> w.headers[f] @@ db.headers[f]],
   items |-> [f \in Fams |-> w.items[f] @@ db.items[f]]]

SetDB(db) ==
  /\ clients' = db.clients
  /\ phones' = db.phones
  /\ locations' = db.locations
  /\ headers' = db.headers
  /\ items' = db.items

Idle == [kind |-> "idle", pc |-> "done", id |-> 0, status |-> 0]
Active(t) == req[t].pc # "done"
InTx(t) == Active(t) /\ req[t].kind = "sync" /\ req[t].inTx

\* What the statements of request s read: the committed rows and its own writes.
View(s) == IF InTx(s) THEN Merge(DB, req[s].ov) ELSE DB

\* The rows of table t (of family f) at key k written by w.
Writes(w, t, f, k) ==
  CASE t = "clients" -> \E c \in w.clients : c.username = k
    [] t = "phones" -> k \in DOMAIN w.phones
    [] t = "doc" -> k \in DOMAIN w.headers[f] \/ k \in DOMAIN w.items[f]

\* Row locks: a row written by an open transaction of another request is locked
\* until that transaction ends.
Locked(s, t, f, k) == \E o \in Slots \ {s} : InTx(o) /\ Writes(req[o].ov, t, f, k)

\* The rows a table holds under key n.
RowsOf(table, n) == IF n \in DOMAIN table THEN table[n] ELSE <<>>

\* AUTO_INCREMENT of clients.client_id: the value the next INSERT takes. A value
\* taken by an INSERT is not given back when the INSERT fails or is rolled back.
NextClientId == autoInc

\* ------------------------------------------------- POST /api/bon/sync: pure parts
\* const device_id = device.device_id || device.phone_id || null
DeviceIdOf(device) ==
  IF Truthy(device, "device_id") THEN device.device_id
  ELSE IF Truthy(device, "phone_id") THEN device.phone_id
  ELSE NULL

\* Faulty variant: only an absent identifier is rejected, an empty one is let through.
MissingDeviceId_Absent(device) == ~Has(device, "device_id") /\ ~Has(device, "phone_id")

\* if (!device_id) return res.status(400)
MissingDeviceId(device) == DeviceIdOf(device) = NULL

\* const phoneName = device.name || device.device_name || 'Device'
PhoneNameOf(device) ==
  IF Truthy(device, "name") THEN device.name
  ELSE IF Truthy(device, "device_name") THEN device.device_name
  ELSE DefaultPhoneName

\* Faulty variant: a latitude alone is taken as a position.
HasCoordinates_Latitude(device) == Has(device, "latitude")

\* if (device.latitude != null && device.longitude != null)
HasCoordinates(device) == Has(device, "latitude") /\ Has(device, "longitude")

\* const h = bon && bon.header ? bon.header : {}
HeaderOf(bon) == bon.header

\* Faulty variant: only an absent document number is skipped, an empty one is processed.
SkipDocument_Absent(h) == ~Has(h, "NUM_BON")

\* if (!h.NUM_BON) continue
SkipDocument(h) == ~Truthy(h, "NUM_BON")

\* for (const it of (bon.items || []))
ItemsOf(bon) == bon.items

\* the header parameters bound to headersSql / headersTempSql
HeaderParams(h, device_id) ==
  [NUM_BON |-> h.NUM_BON,
   CODE_CLIENT |-> OrNull(h, "CODE_CLIENT"),
   TOT_HT |-> Nullish(h, "TOT_HT", NULL),
   LATITUDE |-> IF Has(h, "LATITUDE") THEN h.LATITUDE ELSE "0",
   LIVRER |-> Nullish(h, "LIVRER", "0"),
   CODE_DEPOT |-> OrNull(h, "CODE_DEPOT"),
   phone_id |-> device_id]

\* the line parameters bound to itemsSql / itemsTempSql
ItemParams(it, h) ==
  [CODE_BARRE |-> OrNull(it, "CODE_BARRE"),
   NUM_BON |-> h.NUM_BON,
   QTE |-> Nullish(it, "QTE", "0"),
   CODE_DEPOT |-> IF Truthy(it, "CODE_DEPOT") THEN it.CODE_DEPOT ELSE OrNull(h, "CODE_DEPOT")]

\* payload.bon1 / payload.bon1_temp
ListOf(p, fam) == IF fam = "BON1" THEN p.bon1 ELSE p.bon1_temp

\* Faulty variant: affectedRows without FOUND_ROWS, 0 for a row set to its current values.
AffectedRows_Changed(table, row) ==
  IF RowsOf(table, row.NUM_BON) = <<>> THEN 1
  ELSE IF table[row.NUM_BON][1] = row THEN 0 ELSE 2

\* affectedRows of INSERT ... ON DUPLICATE KEY UPDATE under the pool's default
\* client flags (FOUND_ROWS): 1 inserted, 2 changed, 1 set to its current values.
AffectedRows(table, row) ==
  IF RowsOf(table, row.NUM_BON) = <<>> THEN 1
  ELSE IF table[row.NUM_BON][1] = row THEN 1 ELSE 2

\* Faulty variant: the update list lacks phone_id = VALUES(phone_id).
UpsertRows_KeepDevice(rows, row) ==
  IF rows = <<>> THEN <<row>>
  ELSE [i \in DOMAIN rows |-> [row EXCEPT !.phone_id = rows[i].phone_id]]

\* Faulty variant: the update keeps the old value of a column whose new value is NULL.
UpsertRows_Merge(rows, row) ==
  IF rows = <<>> THEN <<row>>
  ELSE [i \in DOMAIN rows |->
          [c \in DOMAIN row |-> IF row[c] = NULL THEN rows[i][c] ELSE row[c]]]

\* Faulty variant: a plain INSERT, the new row is added next to the old ones.
UpsertRows_Insert(rows, row) == Append(rows, row)

\* The rows of one NUM_BON after INSERT ... ON DUPLICATE KEY UPDATE <every other
\* column> = VALUES(...): a new row when there is none, the row overwritten in
\* place when there is one (NUM_BON, the one column not assigned, is the key).
UpsertRows(rows, row) ==
  IF rows = <<>> THEN <<row>> ELSE [i \in DOMAIN rows |-> row]

\* Faulty variant: the orders loop runs first, the sales loop after it.
NextDoc_OrdersFirst(p, fam, i) ==
  LET rest(f, from) == {k \in from..Len(ListOf(p, f)) : ~SkipDocument(HeaderOf(ListOf(p, f)[k]))}
      first(S) == CHOOSE k \in S : \A j \in S : k <= j
      started == fam = "BON1_TEMP" \/ i > 1
  IN IF ~started /\ rest("BON1_TEMP", 1) # {}
       THEN [pc |-> "upsertHeader", fam |-> "BON1_TEMP", di |-> first(rest("BON1_TEMP", 1)), li |-> 1]
     ELSE IF fam = "BON1_TEMP" /\ rest(fam, i) # {}
       THEN [pc |-> "upsertHeader", fam |-> fam, di |-> first(rest(fam, i)), li |-> 1]
     ELSE IF fam = "BON1_TEMP" /\ rest("BON1", 1) # {}
       THEN [pc |-> "upsertHeader", fam |-> "BON1", di |-> first(rest("BON1", 1)), li |-> 1]
     ELSE IF fam = "BON1" /\ rest(fam, i) # {}
       THEN [pc |-> "upsertHeader", fam |-> fam, di |-> first(rest(fam, i)), li |-> 1]
     ELSE [pc |-> "commit", fam |-> "BON1_TEMP", di |-> 0, li |-> 1]

\* The statement the handler awaits next, scanning the two loops from document
\* i of family fam: the next document that is not skipped, or the commit.
NextDoc(p, fam, i) ==
  LET rest(f, from) == {k \in from..Len(ListOf(p, f)) : ~SkipDocument(HeaderOf(ListOf(p, f)[k]))}
      first(S) == CHOOSE k \in S : \A j \in S : k <= j
  IN IF rest(fam, i) # {}
       THEN [pc |-> "upsertHeader", fam |-> fam, di |-> first(rest(fam, i)), li |-> 1]
     ELSE IF fam = "BON1" /\ rest("BON1_TEMP", 1) # {}
       THEN [pc |-> "upsertHeader", fam |-> "BON1_TEMP", di |-> first(rest("BON1_TEMP", 1)), li |-> 1]
     ELSE [pc |-> "commit", fam |-> "BON1_TEMP", di |-> 0, li |-> 1]

ZeroStats == [updatedBon1 |-> 0, insertedBon2 |-> 0, updatedBon1Temp |-> 0, insertedBon2Temp |-> 0]


\* ------------------------------------------------- POST /api/bon/sync: the handler
\* A request is received in the lowest slot that is not handling one.
FreeSlot(s) == ~Active(s) /\ \A t \in Slots : t < s => Active(t)

\* Express hands a request to its handler: at once when requests may overlap,
\* after the previous response otherwise.
CanReceive(s) ==
  /\ FreeSlot(s)
  /\ now < limit
  /\ concurrent \/ \A t \in Slots : ~Active(t)

\* The requests in flight when a request is received in slot s.
InFlight(s) == {req[t].id : t \in {u \in Slots \ {s} : Active(u)}}

\* The other requests in flight now overlap with request number id.
Overlapped(s, id) == [t \in Slots |->
  IF t # s /\ Active(t) THEN [req[t] EXCEPT !.overlap = @ \cup {id}] ELSE req[t]]

\* One step of request s: its record becomes r, the others are untouched.
Step(s, r) == req' = [req EXCEPT ![s] = r]

\* A statement of request s with writes w: kept in the transaction of s when it
\* has one open, applied to the committed tables otherwise.
Exec(s, w, r) ==
  IF req[s].kind = "sync" /\ req[s].inTx
    THEN /\ Step(s, [r EXCEPT !.ov = Merge(req[s].ov, w)])
         /\ UNCHANGED dbvars
    ELSE /\ Step(s, r)
         /\ SetDB(Merge(DB, w))

\* History: the request r last handled in a slot was an attempt of batch p that
\* ended in a failure; the next request counts it (attempts) and keeps the store
\* as it was before the first of the failed attempts (origin).
FailedAttempt(r, p) == r.kind = "sync" /\ r.payload = p /\ r.err # ""

\* The handler up to its first await: validation, then pool.getConnection().
SyncStart(s, p) ==
  /\ CanReceive(s)
  /\ now' = now + 1
  /\ LET r == [kind |-> "sync", id |-> now + 1, payload |-> p,
               device_id |-> DeviceIdOf(p.device),
               hasConn |-> FALSE, acquires |-> 0, releases |-> 0, rollbackFailed |-> FALSE,
               inTx |-> FALSE, clientId |-> 0,
               fam |-> "BON1", di |-> 0, li |-> 1, stats |-> ZeroStats,
               ov |-> NoWrites, err |-> "", status |-> 0,
               overlap |-> InFlight(s), before |-> DB, seq |-> 0,
               attempts |-> IF FailedAttempt(req[s], p) THEN req[s].attempts + 1 ELSE 0,
               origin |-> IF FailedAttempt(req[s], p) THEN req[s].origin ELSE DB,
               pc |-> "getConnection"]
     IN req' = [Overlapped(s, now + 1) EXCEPT ![s] =
                  IF MissingDeviceId(p.device)
                    THEN [r EXCEPT !.status = 400, !.pc = "done"]
                    ELSE r]
  /\ UNCHANGED <<dbvars, concurrent, limit, leased, usernameUnique, autoInc, commits, hist>>

At(s, pc) == req[s].kind = "sync" /\ req[s].pc = pc

\* const conn = await pool.getConnection(): granted when the pool has a free
\* connection or room for a new one, queued otherwise; then conn.beginTransaction()
\* is issued
GetConnection(s) ==
  /\ At(s, "getConnection")
  /\ leased < connectionLimit
  /\ leased' = leased + 1
  /\ Step(s, [req[s] EXCEPT !.hasConn = TRUE, !.acquires = @ + 1, !.pc = "beginTransaction"])
  /\ UNCHANGED <<dbvars, concurrent, limit, usernameUnique, autoInc, now, commits, hist>>

\* Faulty variant: no transaction is opened; every statement commits on its own.
BeginTransaction_Autocommit(s) ==
  /\ At(s, "beginTransaction")
  /\ Step(s, [req[s] EXCEPT !.inTx = FALSE, !.pc = "selectClient"])
  /\ UNCHANGED <<dbvars, concurrent, limit, leased, usernameUnique, autoInc, now, commits, hist>>

\* await conn.beginTransaction()
BeginTransaction(s) ==
  /\ At(s, "beginTransaction")
  /\ Step(s, [req[s] EXCEPT !.inTx = TRUE, !.pc = "selectClient"])
  /\ UNCHANGED <<dbvars, concurrent, limit, leased, usernameUnique, autoInc, now, commits, hist>>

\* Faulty variant: the SELECT never finds the fallback account.
SelectClient_Blind(s) ==
  /\ At(s, "selectClient")
  /\ Step(s, [req[s] EXCEPT !.clientId = 0, !.pc = "insertClient"])
  /\ UNCHANGED <<dbvars, concurrent, limit, leased, usernameUnique, autoInc, now, commits, hist>>

\* SELECT client_id FROM clients WHERE username = 'device_sync' LIMIT 1
SelectClient(s) ==
  /\ At(s, "selectClient")
  /\ LET clientRows == {c \in View(s).clients : c.username = FallbackUsername}
     IN IF clientRows = {}
          THEN Step(s, [req[s] EXCEPT !.clientId = 0, !.pc = "insertClient"])
          ELSE \E c \in clientRows :
                 Step(s, [req[s] EXCEPT !.clientId = c.client_id, !.pc = "upsertPhone"])
  /\ UNCHANGED <<dbvars, concurrent, limit, leased, usernameUnique, autoInc, now, commits, hist>>

\* INSERT INTO clients (username, ...) VALUES ('device_sync', ...)
InsertClient(s) ==
  /\ At(s, "insertClient")
  /\ usernameUnique => ~Locked(s, "clients", "BON1", FallbackUsername)
  /\ IF usernameUnique /\ \E c \in View(s).clients : c.username = FallbackUsername
       THEN \* ER_DUP_ENTRY is thrown into the catch block
            /\ Step(s, [req[s] EXCEPT !.err = "ER_DUP_ENTRY", !.pc = "rollback"])
            /\ UNCHANGED dbvars
       ELSE LET insertId == NextClientId
            IN Exec(s, [NoWrites EXCEPT !.clients =
                          {[client_id |-> insertId, username |-> FallbackUsername,
                            email |-> NULL, password |-> "sync", statut |-> "active"]}],
                    [req[s] EXCEPT !.clientId = insertId, !.pc = "upsertPhone"])
  /\ autoInc' = autoInc + 1
  /\ UNCHANGED <<concurrent, limit, leased, usernameUnique, now, commits, hist>>

\* Faulty variant: the handler goes from the phone upsert straight to the documents.
AfterPhone_NoLocation(r) ==
  LET n == NextDoc(r.payload, "BON1", 1)
  IN [r EXCEPT !.pc = n.pc, !.fam = n.fam, !.di = n.di, !.li = n.li]

\* The statement after the phone upsert: the location insert or the first document.
AfterPhone(r) ==
  IF HasCoordinates(r.payload.device)
    THEN [r EXCEPT !.pc = "insertLocation"]
    ELSE LET n == NextDoc(r.payload, "BON1", 1)
         IN [r EXCEPT !.pc = n.pc, !.fam = n.fam, !.di = n.di, !.li = n.li]

\* Faulty variant: the upsert also rewrites the owner, ON DUPLICATE KEY UPDATE client_id = VALUES(client_id).
PhoneUpsertRow_Reassign(table, device_id, phoneName, clientId, time) ==
  IF device_id \in DOMAIN table
    THEN [table[device_id] EXCEPT !.client_id = clientId, !.last_update = time]
    ELSE [phone_name |-> phoneName, client_id |-> clientId, last_update |-> time]

\* Faulty variant: the upsert also rewrites the name, ON DUPLICATE KEY UPDATE phone_name = VALUES(phone_name).
PhoneUpsertRow_Rename(table, device_id, phoneName, clientId, time) ==
  IF device_id \in DOMAIN table
    THEN [table[device_id] EXCEPT !.phone_name = phoneName, !.last_update = time]
    ELSE [phone_name |-> phoneName, client_id |-> clientId, last_update |-> time]

\* The row written by INSERT INTO phones ... ON DUPLICATE KEY UPDATE last_update = NOW()
PhoneUpsertRow(table, device_id, phoneName, clientId, time) ==
  IF device_id \in DOMAIN table
    THEN [table[device_id] EXCEPT !.last_update = time]
    ELSE [phone_name |-> phoneName, client_id |-> clientId, last_update |-> time]

UpsertPhone(s) ==
  /\ At(s, "upsertPhone")
  /\ ~Locked(s, "phones", "BON1", req[s].device_id)
  /\ LET row == PhoneUpsertRow(View(s).phones, req[s].device_id,
                               PhoneNameOf(req[s].payload.device), req[s].clientId, now)
     IN Exec(s, [NoWrites EXCEPT !.phones = (req[s].device_id :> row)], AfterPhone(req[s]))
  /\ UNCHANGED <<concurrent, limit, leased, usernameUnique, autoInc, now, commits, hist>>

\* INSERT INTO locations (phone_id, latitude, longitude, date_time)
InsertLocation(s) ==
  /\ At(s, "insertLocation")
  /\ LET d == req[s].payload.device
         n == NextDoc(req[s].payload, "BON1", 1)
     IN Exec(s, [NoWrites EXCEPT !.locations =
                   <<[phone_id |-> req[s].device_id,
                      latitude |-> Nullish(d, "latitude", "NaN"),
                      longitude |-> Nullish(d, "longitude", "NaN")]>>],
             [req[s] EXCEPT !.pc = n.pc, !.fam = n.fam, !.di = n.di, !.li = n.li])
  /\ UNCHANGED <<concurrent, limit, leased, usernameUnique, autoInc, now, commits, hist>>

CurDoc(r) == ListOf(r.payload, r.fam)[r.di]

\* Faulty variant: only a header that was inserted (affectedRows = 1 on a new
\* row, 2 on an overwritten one) is counted.
CountHeader_Inserted(stats, fam, affectedRows) ==
  LET inc == IF affectedRows = 1 THEN 1 ELSE 0
  IN IF fam = "BON1"
       THEN [stats EXCEPT !.updatedBon1 = @ + inc]
       ELSE [stats EXCEPT !.updatedBon1Temp = @ + inc]

\* updatedBon1 += resHeader.affectedRows ? 1 : 0 (updatedBon1Temp in the second loop)
CountHeader(stats, fam, affectedRows) ==
  LET inc == IF affectedRows # 0 THEN 1 ELSE 0
  IN IF fam = "BON1"
       THEN [stats EXCEPT !.updatedBon1 = @ + inc]
       ELSE [stats EXCEPT !.updatedBon1Temp = @ + inc]

\* insertedBon2 += 1 (insertedBon2Temp in the second loop)
CountItem(stats, fam) ==
  IF fam = "BON1"
    THEN [stats EXCEPT !.insertedBon2 = @ + 1]
    ELSE [stats EXCEPT !.insertedBon2Temp = @ + 1]

\* await conn.query(headersSql, params): INSERT ... ON DUPLICATE KEY UPDATE <all fields>
UpsertHeader(s) ==
  /\ At(s, "upsertHeader")
  /\ LET r == req[s]
         h == HeaderOf(CurDoc(r))
         params == HeaderParams(h, r.device_id)
     IN /\ ~Locked(s, "doc", r.fam, h.NUM_BON)
        /\ Exec(s, [NoWrites EXCEPT !.headers[r.fam] =
                      (h.NUM_BON :> UpsertRows(RowsOf(View(s).headers[r.fam], h.NUM_BON), params))],
                [r EXCEPT !.stats = CountHeader(r.stats, r.fam,
                                       AffectedRows(View(s).headers[r.fam], params)),
                          !.pc = "deleteItems"])
  /\ UNCHANGED <<concurrent, limit, leased, usernameUnique, autoInc, now, commits, hist>>

\* The statement after the lines of the current document are replaced.
AfterDoc(r) ==
  LET n == NextDoc(r.payload, r.fam, r.di + 1)
  IN [r EXCEPT !.pc = n.pc, !.fam = n.fam, !.di = n.di, !.li = n.li]

\* Faulty variant: the DELETE is lost and the old lines stay.
DeleteRows_Keep(rows, k) == rows

\* The rows of NUM_BON = k left by DELETE FROM BON2 WHERE NUM_BON = ?
DeleteRows(rows, k) == <<>>

\* Faulty variant: the orders loop too deletes FROM BON2, the lines of the sale
\* with the same number.
DeleteItems_SalesTable(s) ==
  /\ At(s, "deleteItems")
  /\ LET r == req[s]
         k == HeaderOf(CurDoc(r)).NUM_BON
     IN /\ ~Locked(s, "doc", "BON1", k)
        /\ Exec(s, [NoWrites EXCEPT !.items["BON1"] = (k :> <<>>)],
                IF Len(ItemsOf(CurDoc(r))) >= 1
                  THEN [r EXCEPT !.pc = "insertItem", !.li = 1]
                  ELSE AfterDoc(r))
  /\ UNCHANGED <<concurrent, limit, leased, usernameUnique, autoInc, now, commits, hist>>

\* await conn.query('DELETE FROM BON2 WHERE NUM_BON = ?', [h.NUM_BON])
DeleteItems(s) ==
  /\ At(s, "deleteItems")
  /\ LET r == req[s]
         k == HeaderOf(CurDoc(r)).NUM_BON
         old == IF k \in DOMAIN View(s).items[r.fam] THEN View(s).items[r.fam][k] ELSE <<>>
     IN /\ ~Locked(s, "doc", r.fam, k)
        /\ Exec(s, [NoWrites EXCEPT !.items[r.fam] = (k :> DeleteRows(old, k))],
                IF Len(ItemsOf(CurDoc(r))) >= 1
                  THEN [r EXCEPT !.pc = "insertItem", !.li = 1]
                  ELSE AfterDoc(r))
  /\ UNCHANGED <<concurrent, limit, leased, usernameUnique, autoInc, now, commits, hist>>

\* await conn.query(itemsSql, p): the new row takes the next RECORDID
InsertItem(s) ==
  /\ At(s, "insertItem")
  /\ LET r == req[s]
         bon == CurDoc(r)
         k == HeaderOf(bon).NUM_BON
         old == IF k \in DOMAIN View(s).items[r.fam] THEN View(s).items[r.fam][k] ELSE <<>>
         p == ItemParams(ItemsOf(bon)[r.li], HeaderOf(bon))
         counted == [r EXCEPT !.stats = CountItem(r.stats, r.fam)]
     IN /\ ~Locked(s, "doc", r.fam, k)
        /\ Exec(s, [NoWrites EXCEPT !.items[r.fam] = (k :> Append(old, p))],
                IF r.li < Len(ItemsOf(bon))
                  THEN [counted EXCEPT !.li = r.li + 1]
                  ELSE AfterDoc(counted))
  /\ UNCHANGED <<concurrent, limit, leased, usernameUnique, autoInc, now, commits, hist>>


\* ----------------------------------------------------------- history
\* The document numbers a batch submits in family fam.
NumbersIn(p, fam) ==
  {ListOf(p, fam)[k].header.NUM_BON :
     k \in {j \in 1..Len(ListOf(p, fam)) : Truthy(ListOf(p, fam)[j].header, "NUM_BON")}}

\* The last document of family fam that a batch submits under number n.
LastDocOf(p, fam, n) ==
  LET l == ListOf(p, fam)
      at == {k \in 1..Len(l) : Truthy(l[k].header, "NUM_BON") /\ l[k].header.NUM_BON = n}
  IN l[CHOOSE k \in at : \A j \in at : j <= k]

\* lastSync after the batch p of device device_id commits as transaction number seq.
Recorded(p, device_id, seq) ==
  [f \in Fams |->
     [n \in NumbersIn(p, f) |->
        [doc |-> LastDocOf(p, f, n), device_id |-> device_id, seq |-> seq,
         replaced |-> IF n \in DOMAIN items[f] THEN Len(items[f][n]) ELSE 0]]
     @@ lastSync[f]]

\* await conn.commit(); res.json({ success: true, device_id, stats }); finally conn.release()
Commit(s) ==
  /\ At(s, "commit")
  /\ SetDB(Merge(DB, req[s].ov))
  /\ Step(s, [req[s] EXCEPT !.ov = NoWrites, !.inTx = FALSE,
                            !.hasConn = FALSE, !.releases = @ + 1,
                            !.status = 200, !.seq = commits + 1, !.pc = "done"])
  /\ leased' = leased - 1
  /\ commits' = commits + 1
  /\ lastSync' = Recorded(req[s].payload, req[s].device_id, commits + 1)
  /\ okLog' = SubSeq(<<[payload |-> req[s].payload, device_id |-> req[s].device_id,
                        stats |-> req[s].stats, db |-> Merge(DB, req[s].ov)]>> \o okLog,
                     1, IF okLog = <<>> THEN 1 ELSE 2)
  /\ syncLog' = Append(syncLog, req[s].payload.device)
  /\ UNCHANGED <<concurrent, limit, usernameUnique, autoInc, now>>

\* The statements awaited inside the try block.
InTry == {"beginTransaction", "selectClient", "insertClient", "upsertPhone", "insertLocation",
          "upsertHeader", "deleteItems", "insertItem", "commit"}

\* A store operation fails (connection lost, lock wait timeout, deadlock victim):
\* the error is thrown into the catch block, which awaits conn.rollback().
StoreFailure(s) ==
  /\ req[s].kind = "sync" /\ req[s].pc \in InTry
  /\ Step(s, [req[s] EXCEPT !.err = "store", !.pc = "rollback"])
  /\ UNCHANGED <<dbvars, concurrent, limit, leased, usernameUnique, autoInc, now, commits, hist>>

\* pool.getConnection() rejects: it is awaited outside the try block, so neither
\* the catch nor the finally of the handler runs and the async handler's promise
\* is rejected. What the caller gets is up to the framework: nothing when the
\* rejection is left unhandled (logged by the process-level hook), or the
\* framework's own error response (500) when it forwards rejections of handlers.
GetConnectionFailure(s) ==
  /\ At(s, "getConnection")
  /\ \E answered \in BOOLEAN :
       Step(s, [req[s] EXCEPT !.err = "store", !.pc = "done",
                              !.status = IF answered THEN 500 ELSE 0])
  /\ UNCHANGED <<dbvars, concurrent, limit, leased, usernameUnique, autoInc, now, commits, hist>>

\* Faulty variant: the catch block answers 500 but what the transaction wrote stays.
Rollback_Keep(s) ==
  /\ At(s, "rollback")
  /\ SetDB(Merge(DB, req[s].ov))
  /\ Step(s, [req[s] EXCEPT !.ov = NoWrites, !.inTx = FALSE,
                            !.hasConn = FALSE, !.releases = @ + 1,
                            !.status = 500, !.pc = "done"])
  /\ leased' = leased - 1
  /\ UNCHANGED <<concurrent, limit, usernameUnique, autoInc, now, commits, hist>>

\* Faulty variant: conn.release() sits at the end of the try block, not in a
\* finally: a failed batch answers 500 and keeps its connection.
Rollback_Leak(s) ==
  /\ At(s, "rollback")
  /\ \E failed \in BOOLEAN :
       Step(s, [req[s] EXCEPT !.ov = NoWrites, !.inTx = FALSE, !.rollbackFailed = failed,
                              !.status = 500, !.pc = "done"])
  /\ UNCHANGED <<dbvars, concurrent, limit, leased, usernameUnique, autoInc, now, commits, hist>>

\* try { await conn.rollback() } catch (_) {}; res.status(500); finally conn.release().
\* A rollback that fails is ignored; it fails when the connection is lost, and
\* the store then discards the open transaction itself.
Rollback(s) ==
  /\ At(s, "rollback")
  /\ \E failed \in BOOLEAN :
       Step(s, [req[s] EXCEPT !.ov = NoWrites, !.inTx = FALSE, !.rollbackFailed = failed,
                              !.hasConn = FALSE, !.releases = @ + 1,
                              !.status = 500, !.pc = "done"])
  /\ leased' = leased - 1
  /\ UNCHANGED <<dbvars, concurrent, limit, usernameUnique, autoInc, now, commits, hist>>

\* ------------------------------------------------- POST /api/phone-auth
\* String(device_name).trim()
Trim(str) == CASE str = " Nm2 " -> "Nm2" [] str = "  " -> "" [] OTHER -> str

\* const deviceNameTrimmed = device_name && trim().length > 0 ? trim() : null
DeviceNameTrimmed(body) ==
  IF Truthy(body, "device_name") /\ Trim(body.device_name) # "" THEN Trim(body.device_name) ELSE NULL

\* if (!password || (!username && !email))
AuthInvalid(body) ==
  ~Truthy(body, "password") \/ (~Truthy(body, "username") /\ ~Truthy(body, "email"))

\* SELECT * FROM clients WHERE ${lookupField} = ? LIMIT 1
LookupClient(body, table) ==
  IF Truthy(body, "username")
    THEN {c \in table : c.username = body.username}
    ELSE {c \in table : c.email = body.email}

\* The code the credential checks answer with, 0 when they all pass.
CredentialCode(body, rows, client) ==
  IF rows = {} THEN 340
  ELSE IF client.statut = "disabled" THEN 330
  ELSE IF body.password # client.password THEN 401
  ELSE 0

AtAuth(s, pc) == req[s].kind = "auth" /\ req[s].pc = pc

Respond(r, code) == [r EXCEPT !.status = 200, !.code = code, !.pc = "done"]

\* The handler up to its first await: validation, then the client lookup is issued.
AuthStart(s, body) ==
  /\ CanReceive(s)
  /\ now' = now + 1
  /\ LET r == [kind |-> "auth", id |-> now + 1, body |-> body, cid |-> 0,
               status |-> 0, code |-> 0, err |-> "",
               overlap |-> InFlight(s), before |-> DB,
               pc |-> "lookupClient"]
     IN req' = [Overlapped(s, now + 1) EXCEPT ![s] =
                  IF AuthInvalid(body) THEN Respond(r, 400) ELSE r]
  /\ UNCHANGED <<dbvars, concurrent, limit, leased, usernameUnique, autoInc, commits, hist>>

\* await pool.query(SELECT * FROM clients ...), then status and password checks
AuthLookupClient(s) ==
  /\ AtAuth(s, "lookupClient")
  /\ LET rows == LookupClient(req[s].body, clients)
     IN IF rows = {}
          THEN Step(s, Respond(req[s], CredentialCode(req[s].body, rows, Idle)))
          ELSE \E client \in rows :
                 LET code == CredentialCode(req[s].body, rows, client)
                 IN IF code # 0
                      THEN Step(s, Respond(req[s], code))
                      ELSE Step(s, [req[s] EXCEPT !.cid = client.client_id, !.pc = "updateLogin"])
  /\ UNCHANGED <<dbvars, concurrent, limit, leased, usernameUnique, autoInc, now, commits, hist>>

\* await pool.query('UPDATE clients SET last_login = NOW() ...'); then, with a
\* phone_id, the phone lookup is issued
AuthUpdateLogin(s) ==
  /\ AtAuth(s, "updateLogin")
  /\ IF Truthy(req[s].body, "phone_id")
       THEN Step(s, [req[s] EXCEPT !.pc = "selectPhone"])
       ELSE Step(s, Respond(req[s], 200))
  /\ UNCHANGED <<dbvars, concurrent, limit, leased, usernameUnique, autoInc, now, commits, hist>>

\* Faulty variant: the owner of the phone row is not compared.
OtherOwner_Never(current, cid) == FALSE

\* String(current.client_id) !== String(cid)
OtherOwner(current, cid) == current.client_id # cid

\* await pool.query('SELECT phone_id, phone_name, client_id FROM phones WHERE phone_id = ?')
AuthSelectPhone(s) ==
  /\ AtAuth(s, "selectPhone")
  /\ LET r == req[s]
         exists == r.body.phone_id \in DOMAIN phones
         current == phones[r.body.phone_id]
         name == DeviceNameTrimmed(r.body)
     IN IF ~exists THEN Step(s, [r EXCEPT !.pc = "insertPhone"])
        ELSE IF OtherOwner(current, r.cid) THEN Step(s, Respond(r, 360))
        ELSE IF name # NULL /\ name # current.phone_name
          THEN Step(s, [r EXCEPT !.pc = "updatePhone"])
        ELSE Step(s, Respond(r, 200))
  /\ UNCHANGED <<dbvars, concurrent, limit, leased, usernameUnique, autoInc, now, commits, hist>>

\* await pool.query('INSERT INTO phones (phone_id, phone_name, client_id, last_update) ...');
\* a duplicate key is caught and ignored
AuthInsertPhone(s) ==
  /\ AtAuth(s, "insertPhone")
  /\ LET r == req[s]
         id == r.body.phone_id
         name == DeviceNameTrimmed(r.body)
         phoneName == IF name # NULL THEN name ELSE id
     IN /\ ~Locked(s, "phones", "BON1", id)
        /\ IF id \in DOMAIN phones
             THEN Step(s, [Respond(r, 200) EXCEPT !.err = "ER_DUP_ENTRY"]) /\ UNCHANGED dbvars
             ELSE Exec(s, [NoWrites EXCEPT !.phones =
                             (id :> [phone_name |-> phoneName, client_id |-> r.cid,
                                     last_update |-> now])],
                       Respond(r, 200))
  /\ UNCHANGED <<concurrent, limit, leased, usernameUnique, autoInc, now, commits, hist>>

\* await pool.query('UPDATE phones SET phone_name = ?, last_update = NOW() WHERE phone_id = ?')
AuthUpdatePhone(s) ==
  /\ AtAuth(s, "updatePhone")
  /\ LET r == req[s]
         id == r.body.phone_id
     IN /\ ~Locked(s, "phones", "BON1", id)
        /\ Exec(s, [NoWrites EXCEPT !.phones =
                      IF id \in DOMAIN phones
                        THEN (id :> [phones[id] EXCEPT !.phone_name = DeviceNameTrimmed(r.body),
                                                       !.last_update = now])
                        ELSE <<>>],
                Respond(r, 200))
  /\ UNCHANGED <<concurrent, limit, leased, usernameUnique, autoInc, now, commits, hist>>

\* The account lookup fails: the outer catch answers HTTP 500 with the error.
AuthLookupFailure(s) ==
  /\ AtAuth(s, "lookupClient")
  /\ Step(s, [req[s] EXCEPT !.status = 500, !.err = "store", !.pc = "done"])
  /\ UNCHANGED <<dbvars, concurrent, limit, leased, usernameUnique, autoInc, now, commits, hist>>

\* A statement on phones fails: catch (e) {} ignores it and the handler goes on
\* to answer code 200.
AuthPhoneFailure(s) ==
  /\ req[s].kind = "auth" /\ req[s].pc \in {"selectPhone", "insertPhone", "updatePhone"}
  /\ Step(s, [Respond(req[s], 200) EXCEPT !.err = "store"])
  /\ UNCHANGED <<dbvars, concurrent, limit, leased, usernameUnique, autoInc, now, commits, hist>>

\* ------------------------------------------------- GET /api/bon/ventes/:num_bon
AtRead(s, pc) == req[s].kind = "read" /\ req[s].pc = pc

\* History: the commit that last wrote the sale num_bon, 0 when none did.
WrittenBy(num_bon) ==
  IF num_bon \in DOMAIN lastSync["BON1"] THEN lastSync["BON1"][num_bon].seq ELSE 0

\* The handler up to its first await: the header query is issued.
ReadStart(s, num_bon) ==
  /\ CanReceive(s)
  /\ now' = now + 1
  /\ req' = [Overlapped(s, now + 1) EXCEPT ![s] =
               [kind |-> "read", id |-> now + 1, num_bon |-> num_bon,
                header |-> NULL, items |-> <<>>, hseq |-> 0, iseq |-> 0,
                status |-> 0, err |-> "", overlap |-> InFlight(s),
                pc |-> "readHeader"]]
  /\ UNCHANGED <<dbvars, concurrent, limit, leased, usernameUnique, autoInc, commits, hist>>

\* headerRows[0] || null
FirstOrNull(rows) == IF rows = <<>> THEN NULL ELSE rows[1]

\* const [headerRows] = await pool.query('SELECT * ... FROM BON1 WHERE NUM_BON = ?')
ReadHeader(s) ==
  /\ AtRead(s, "readHeader")
  /\ Step(s, [req[s] EXCEPT !.header = FirstOrNull(RowsOf(headers["BON1"], req[s].num_bon)),
                            !.hseq = WrittenBy(req[s].num_bon),
                            !.pc = "readItems"])
  /\ UNCHANGED <<dbvars, concurrent, limit, leased, usernameUnique, autoInc, now, commits, hist>>

\* const [itemRows] = await pool.query('SELECT ... FROM BON2 WHERE NUM_BON = ? ORDER BY RECORDID');
\* res.json({ header: headerRows[0] || null, items: itemRows })
ReadItems(s) ==
  /\ AtRead(s, "readItems")
  /\ Step(s, [req[s] EXCEPT !.items = RowsOf(items["BON1"], req[s].num_bon),
                            !.iseq = WrittenBy(req[s].num_bon),
                            !.status = 200, !.pc = "done"])
  /\ UNCHANGED <<dbvars, concurrent, limit, leased, usernameUnique, autoInc, now, commits, hist>>

\* One of the two queries fails: the catch answers 500 with the error.
ReadFailure(s) ==
  /\ req[s].kind = "read" /\ req[s].pc \in {"readHeader", "readItems"}
  /\ Step(s, [req[s] EXCEPT !.status = 500, !.err = "store", !.pc = "done"])
  /\ UNCHANGED <<dbvars, concurrent, limit, leased, usernameUnique, autoInc, now, commits, hist>>

\* ----------------------------------------------------------- specification
Alice == [client_id |-> 1, username |-> "alice", email |-> "alice@x",
          password |-> "pw", statut |-> "active"]
Bob == [client_id |-> 2, username |-> "bob", email |-> "bob@x",
        password |-> "pw", statut |-> "active"]
Carol == [client_id |-> 3, username |-> "carol", email |-> "carol@x",
          password |-> "pw", statut |-> "disabled"]

InitStore ==
  /\ clients = {Alice, Bob, Carol}
  /\ phones = <<>>
  /\ locations = <<>>
  /\ headers = [f \in Fams |-> <<>>]
  /\ items = [f \in Fams |-> <<>>]
  /\ usernameUnique \in BOOLEAN
  /\ autoInc = 4
  /\ leased = 0
  /\ req = [s \in Slots |-> Idle]
  /\ now = 0
  /\ commits = 0
  /\ lastSync = [f \in Fams |-> <<>>]
  /\ okLog = <<>>
  /\ syncLog = <<>>

Init == InitStore /\ concurrent = FALSE /\ limit = MaxRequests

InitConc == InitStore /\ concurrent = TRUE /\ limit = MaxConcRequests

InitLong == InitStore /\ concurrent = TRUE /\ limit = MaxLongRequests

\* The requests clients send in this behaviour.
SyncPool == IF concurrent THEN ConcPayloads ELSE Payloads
AuthPool == IF concurrent THEN ConcAuthBodies ELSE AuthBodies
ReadPool == IF concurrent THEN ConcReadNumbers ELSE ReadNumbers

Next ==
  \E s \in Slots :
    \/ \E p \in SyncPool : SyncStart(s, p)
    \/ GetConnection(s)
    \/ GetConnectionFailure(s)
    \/ BeginTransaction(s)
    \/ SelectClient(s)
    \/ InsertClient(s)
    \/ UpsertPhone(s)
    \/ InsertLocation(s)
    \/ UpsertHeader(s)
    \/ DeleteItems(s)
    \/ InsertItem(s)
    \/ Commit(s)
    \/ StoreFailure(s)
    \/ Rollback(s)
    \/ \E body \in AuthPool : AuthStart(s, body)
    \/ AuthLookupClient(s)
    \/ AuthUpdateLogin(s)
    \/ AuthSelectPhone(s)
    \/ AuthInsertPhone(s)
    \/ AuthUpdatePhone(s)
    \/ AuthLookupFailure(s)
    \/ AuthPhoneFailure(s)
    \/ \E num_bon \in ReadPool : ReadStart(s, num_bon)
    \/ ReadHeader(s)
    \/ ReadItems(s)
    \/ ReadFailure(s)

\* The server handling one request after the other.
Spec == Init /\ [][Next]_vars

\* The server handling overlapping requests.
SpecConc == InitConc /\ [][Next]_vars

\* The server handling overlapping requests, one request more: a request can
\* overlap with another after a first one has committed.
SpecLong == InitLong /\ [][Next]_vars

\* ----------------------------------------------------------- claims
\* Every non-empty value the submitted object carries is the value of the stored row.
Carries(row, obj) ==
  \A fld \in DOMAIN obj \cap DOMAIN row : obj[fld] # "" => row[fld] = obj[fld]

\* rows are the lines of doc: as many, in the submitted order, with its contents.
StoredAs(rows, doc) ==
  /\ Len(rows) = Len(doc.items)
  /\ \A i \in 1..Len(rows) :
       rows[i].NUM_BON = doc.header.NUM_BON /\ Carries(rows[i], doc.items[i])

\* C1: for every family and document number, the stored lines are exactly the
\* line list of the most recent committed batch that contained the number (same
\* count, same contents, submitted order), and a number no committed batch
\* contained has no line.
C1_LinesAreLastSubmission ==
  \A f \in Fams : \A n \in Keys :
    IF n \in DOMAIN lastSync[f]
      THEN StoredAs(RowsOf(items[f], n), lastSync[f][n].doc)
      ELSE RowsOf(items[f], n) = <<>>

\* C1 witness: a committed resync replaced a longer line set by a shorter one.
C1_Witness ==
  \E f \in Fams : \E n \in DOMAIN lastSync[f] :
    /\ lastSync[f][n].replaced > Len(lastSync[f][n].doc.items)
    /\ Len(lastSync[f][n].doc.items) >= 1
    /\ Len(RowsOf(items[f], n)) = Len(lastSync[f][n].doc.items)

\* C2: a sync batch whose store operation failed after the transaction was
\* opened and before the commit is rolled back as a whole: once it has answered
\* (500), accounts, devices, location samples, headers and lines are exactly as
\* they were before the batch started, and nothing of it is left pending.
C2_FailedBatchLeavesNoTrace ==
  \A s \in Slots :
    (req[s].kind = "sync" /\ req[s].err = "store" /\ req[s].status = 500) =>
      /\ DB = req[s].before
      /\ req[s].ov = NoWrites
      /\ ~req[s].inTx

\* C2 witness: the batch failed after a header upsert and a line insert of one
\* of its documents had succeeded, and after its device and location writes.
C2_Witness ==
  \E s \in Slots :
    /\ req[s].kind = "sync" /\ req[s].err = "store" /\ req[s].status = 500
    /\ req[s].stats.updatedBon1 >= 1
    /\ req[s].stats.insertedBon2 >= 1
    /\ HasCoordinates(req[s].payload.device)
    /\ DB = req[s].before

\* C3: when the same batch commits twice in sequence, the second response's
\* counts equal the first's, and every document of the batch has one header and
\* exactly its submitted lines, the same after the second commit as after the first.
C3_ResubmissionIsOverwrite ==
  (Len(okLog) = 2 /\ okLog[1].payload = okLog[2].payload) =>
    /\ okLog[1].stats = okLog[2].stats
    /\ \A f \in Fams : \A n \in NumbersIn(okLog[1].payload, f) :
         /\ n \in DOMAIN okLog[1].db.headers[f]
         /\ n \in DOMAIN okLog[2].db.headers[f]
         /\ okLog[1].db.headers[f][n] = okLog[2].db.headers[f][n]
         /\ RowsOf(okLog[1].db.items[f], n) = RowsOf(okLog[2].db.items[f], n)
         /\ StoredAs(RowsOf(okLog[1].db.items[f], n), LastDocOf(okLog[1].payload, f, n))

\* C3 witness: a batch with documents and lines in both families committed
\* twice in a row, and the second response counts what the first counted.
C3_Witness ==
  /\ Len(okLog) = 2
  /\ okLog[1].payload = okLog[2].payload
  /\ okLog[1].stats.updatedBon1 >= 2
  /\ okLog[1].stats.insertedBon2 >= 3
  /\ okLog[1].stats.insertedBon2Temp >= 1
  /\ okLog[1].db.items = okLog[2].db.items

\* The fallback accounts of a clients table.
FallbackRows(table) == {c \in table : c.username = FallbackUsername}

\* The device of batch r had, when r was received, an owner that is not the
\* fallback account the anonymous sync context implies.
OwnedByOther(r) ==
  /\ r.kind = "sync"
  /\ r.device_id \in DOMAIN r.before.phones
  /\ r.before.phones[r.device_id].client_id \notin
       {c.client_id : c \in FallbackRows(r.before.clients)}

\* C4 as claimed: a sync batch for a device owned by another account is
\* rejected as a whole before any location sample or document of it is written:
\* it never reaches those statements and never commits.
C4_ConflictingSyncRejected ==
  \A s \in Slots :
    OwnedByOther(req[s]) =>
      /\ req[s].pc \notin {"insertLocation", "upsertHeader", "deleteItems", "insertItem", "commit"}
      /\ req[s].status # 200

\* C5: once a device row has an owning account, no step of a sync batch or of a
\* phone-auth call removes the row or changes its owner.
C5_OwnerNeverChanges ==
  [][\A d \in DOMAIN phones :
       d \in DOMAIN phones' /\ phones'[d].client_id = phones[d].client_id]_vars

\* C5 witness: a sync batch committed for a device that another account owned,
\* its phone upsert ran with the fallback account, and the owner is unchanged.
C5_Witness ==
  \E s \in Slots :
    /\ OwnedByOther(req[s])
    /\ req[s].status = 200
    /\ req[s].clientId # req[s].before.phones[req[s].device_id].client_id
    /\ phones[req[s].device_id].client_id = req[s].before.phones[req[s].device_id].client_id
    /\ phones[req[s].device_id].last_update # req[s].before.phones[req[s].device_id].last_update

\* Committed batches r and t ran concurrently.
RanConcurrently(r, t) == r.id \in t.overlap \/ t.id \in r.overlap

\* Both families' numbers that the batches p and q both submit.
SharedNumbers(p, q, f) == NumbersIn(p, f) \cap NumbersIn(q, f)

\* C6: when two sync batches that submit the same document number ran
\* concurrently and both committed, the stored header and the stored lines of
\* that number are both those of the batch that committed last: the header is
\* its header with its device, the lines are exactly its line list.
C6_LastCommitWinsCleanly ==
  \A s \in Slots : \A t \in Slots \ {s} :
    (/\ req[s].kind = "sync" /\ req[t].kind = "sync"
     /\ req[s].status = 200 /\ req[t].status = 200
     /\ RanConcurrently(req[s], req[t])
     /\ req[s].seq > req[t].seq) =>
      \A f \in Fams : \A n \in SharedNumbers(req[s].payload, req[t].payload, f) :
        lastSync[f][n].seq = req[s].seq =>
          /\ n \in DOMAIN headers[f]
          /\ Carries(headers[f][n][1], LastDocOf(req[s].payload, f, n).header)
          /\ headers[f][n][1].phone_id = req[s].device_id
          /\ StoredAs(RowsOf(items[f], n), LastDocOf(req[s].payload, f, n))

\* C6 witness: two batches from different devices with different headers and
\* line lists for the same number ran concurrently and both committed, the one
\* received first committing last.
C6_Witness ==
  \E s \in Slots : \E t \in Slots \ {s} :
    /\ req[s].kind = "sync" /\ req[t].kind = "sync"
    /\ req[s].status = 200 /\ req[t].status = 200
    /\ RanConcurrently(req[s], req[t])
    /\ req[s].seq > req[t].seq
    /\ req[s].id < req[t].id
    /\ req[s].device_id # req[t].device_id
    /\ "N1" \in SharedNumbers(req[s].payload, req[t].payload, "BON1")
    /\ LastDocOf(req[s].payload, "BON1", "N1") # LastDocOf(req[t].payload, "BON1", "N1")
    /\ headers["BON1"]["N1"][1].phone_id = req[s].device_id

\* C7: a committed sync from a device identifier that had no device row adds
\* exactly that one device row and, only if there was no fallback account,
\* exactly one fallback account row; a committed sync that immediately follows a
\* committed sync from the same identifier adds no device row and no account row.
C7_FirstSyncProvisioning ==
  \A s \in Slots :
    (req[s].kind = "sync" /\ req[s].status = 200 /\ req[s].seq = commits) =>
      LET before == req[s].before
          d == req[s].device_id
      IN /\ d \notin DOMAIN before.phones =>
              /\ DOMAIN phones = DOMAIN before.phones \cup {d}
              /\ \A e \in DOMAIN before.phones : phones[e] = before.phones[e]
              /\ IF FallbackRows(before.clients) = {}
                   THEN /\ Cardinality(FallbackRows(clients)) = 1
                        /\ clients \ FallbackRows(clients) = before.clients
                   ELSE clients = before.clients
         /\ (Len(okLog) = 2 /\ okLog[2].device_id = d /\ okLog[2].db = before) =>
              /\ DOMAIN phones = DOMAIN before.phones
              /\ clients = before.clients

\* C7 witness: the first sync of an unseen device created its row and the
\* fallback account, and the sync that followed it from the same device committed.
C7_Witness ==
  \E s \in Slots :
    /\ req[s].kind = "sync" /\ req[s].status = 200 /\ req[s].seq = commits
    /\ Len(okLog) = 2
    /\ okLog[2].device_id = req[s].device_id
    /\ okLog[2].db = req[s].before
    /\ Cardinality(FallbackRows(clients)) = 1
    /\ Cardinality(clients) = 4
    /\ DOMAIN phones = {req[s].device_id}

\* C8 as claimed: when all of several concurrent sync batches from the same
\* unseen device, started while no fallback account existed, have finished,
\* there is one device row, at most one fallback account row, and every one of
\* the batches has committed.
C8_ConcurrentFirstSyncsAllCommit ==
  \A s \in Slots : \A t \in Slots \ {s} :
    (/\ req[s].kind = "sync" /\ req[t].kind = "sync"
     /\ req[s].pc = "done" /\ req[t].pc = "done"
     /\ req[s].err # "store" /\ req[t].err # "store"
     /\ RanConcurrently(req[s], req[t])
     /\ req[s].device_id = req[t].device_id
     /\ req[s].device_id # NULL
     /\ \A r \in {req[s], req[t]} :
          r.device_id \notin DOMAIN r.before.phones /\ FallbackRows(r.before.clients) = {}) =>
      /\ req[s].status = 200 /\ req[t].status = 200
      /\ req[s].device_id \in DOMAIN phones
      /\ Cardinality(FallbackRows(clients)) <= 1

\* The device object carries no identifier, or only empty ones.
NoIdentifier(device) ==
  /\ Has(device, "device_id") => device.device_id = ""
  /\ Has(device, "phone_id") => device.phone_id = ""

\* C9: a sync batch with no (or an empty) device identifier is answered 400
\* without ever holding a connection or an open transaction, and the accounts,
\* devices, locations, headers and lines are as they were when it was received.
C9_MissingIdentifierRejected ==
  \A s \in Slots :
    (req[s].kind = "sync" /\ NoIdentifier(req[s].payload.device)) =>
      /\ req[s].status = 400
      /\ req[s].pc = "done"
      /\ ~req[s].hasConn
      /\ ~req[s].inTx
      /\ req[s].ov = NoWrites
      /\ DB = req[s].before

\* C9 witness: a batch whose device identifier is the empty string, carrying
\* coordinates and a document, was answered 400 on a store that already held rows.
C9_Witness ==
  \E s \in Slots :
    /\ req[s].kind = "sync"
    /\ Has(req[s].payload.device, "device_id")
    /\ req[s].payload.device.device_id = ""
    /\ HasCoordinates(req[s].payload.device)
    /\ Len(req[s].payload.bon1) >= 1
    /\ req[s].status = 400
    /\ DOMAIN headers["BON1"] # {}
    /\ DB = req[s].before

\* A document of batch p has no document number (absent or empty).
HasUnnumbered(p) ==
  \E f \in Fams : \E i \in 1..Len(ListOf(p, f)) :
    LET h == ListOf(p, f)[i].header
    IN ~Has(h, "NUM_BON") \/ h.NUM_BON = ""

\* C10: a batch containing a document without a document number still commits
\* unless a store operation fails; once committed, no header or line row exists
\* or has changed outside the numbers the batch submits (none for the unnumbered
\* document, no existing row deleted), and every numbered document of the batch,
\* before and after the unnumbered one and in both families, is stored with its lines.
C10_UnnumberedDocumentSkipped ==
  \A s \in Slots :
    (req[s].kind = "sync" /\ req[s].device_id # NULL /\ HasUnnumbered(req[s].payload)) =>
      /\ req[s].status = 500 => req[s].err = "store"
      /\ (req[s].status = 200 /\ req[s].seq = commits) =>
           \A f \in Fams :
             /\ \A n \in Keys \ NumbersIn(req[s].payload, f) :
                  /\ n \in DOMAIN headers[f] <=> n \in DOMAIN req[s].before.headers[f]
                  /\ n \in DOMAIN headers[f] => headers[f][n] = req[s].before.headers[f][n]
                  /\ RowsOf(items[f], n) = RowsOf(req[s].before.items[f], n)
             /\ DOMAIN headers[f] \subseteq Keys
             /\ \A n \in NumbersIn(req[s].payload, f) :
                  /\ n \in DOMAIN headers[f]
                  /\ Carries(headers[f][n][1], LastDocOf(req[s].payload, f, n).header)
                  /\ StoredAs(RowsOf(items[f], n), LastDocOf(req[s].payload, f, n))

\* C10 witness: a committed batch whose second document had no number stored
\* the documents before and after it and the one of the other family, over a
\* store that already held lines.
C10_Witness ==
  \E s \in Slots :
    /\ req[s].kind = "sync" /\ req[s].status = 200 /\ req[s].seq = commits
    /\ Len(req[s].payload.bon1) = 3
    /\ ~Has(req[s].payload.bon1[2].header, "NUM_BON")
    /\ req[s].stats.updatedBon1 = 2
    /\ req[s].stats.updatedBon1Temp = 1
    /\ DOMAIN headers["BON1"] = {"N1", "N2"}
    /\ DOMAIN req[s].before.items["BON1_TEMP"] # {}

\* The location samples stored for device d.
SamplesOf(d) == {i \in DOMAIN locations : locations[i].phone_id = d}

\* The committed batches of device d that carried both a latitude and a longitude.
PositionedSyncs(d) ==
  {i \in DOMAIN syncLog :
     /\ DeviceIdOf(syncLog[i]) = d
     /\ "latitude" \in DOMAIN syncLog[i]
     /\ "longitude" \in DOMAIN syncLog[i]}

SampleDevices == {"d1", "d2", NULL}

\* C11: at every step the stored location samples are kept as they are (none
\* updated, none deleted, new ones only appended), and after the step every
\* device has as many samples as it has committed batches that carried both
\* coordinates: a batch missing a coordinate and a rolled-back batch append none.
C11_SamplesCountCommittedPositions ==
  [][/\ Len(locations') >= Len(locations)
     /\ SubSeq(locations', 1, Len(locations)) = locations
     /\ \A i \in DOMAIN locations' : locations'[i].phone_id \in SampleDevices \ {NULL}
     /\ \A d \in SampleDevices :
          Cardinality({i \in DOMAIN locations' : locations'[i].phone_id = d}) =
          Cardinality({i \in DOMAIN syncLog' :
                         /\ DeviceIdOf(syncLog'[i]) = d
                         /\ "latitude" \in DOMAIN syncLog'[i]
                         /\ "longitude" \in DOMAIN syncLog'[i]})]_vars

\* C11 witness: a device has exactly one sample after two committed batches,
\* one that carried both coordinates and one that did not.
C11_Witness ==
  \E d \in SampleDevices :
    /\ Cardinality(SamplesOf(d)) = 1
    /\ Cardinality(PositionedSyncs(d)) = 1
    /\ Cardinality({i \in DOMAIN syncLog : DeviceIdOf(syncLog[i]) = d}) = 2

\* C12: in every state, committed or inside an open transaction, a document
\* family holds at most one header row per document number (a resync overwrites
\* the row in place), also when the number is synced by concurrent batches.
C12_OneHeaderPerNumber ==
  \A f \in Fams :
    /\ \A n \in DOMAIN headers[f] :
         Len(headers[f][n]) = 1 /\ headers[f][n][1].NUM_BON = n
    /\ \A s \in Slots : req[s].kind = "sync" =>
         \A n \in DOMAIN View(s).headers[f] : Len(View(s).headers[f][n]) = 1

\* C12 witness: two batches that ran concurrently both committed a header for
\* the same number, the second overwriting the first, and one row is stored.
C12_Witness ==
  \E s \in Slots : \E t \in Slots \ {s} :
    /\ req[s].kind = "sync" /\ req[t].kind = "sync"
    /\ req[s].status = 200 /\ req[t].status = 200
    /\ RanConcurrently(req[s], req[t])
    /\ req[s].seq > req[t].seq
    /\ "N1" \in SharedNumbers(req[s].payload, req[t].payload, "BON1")
    /\ req[s].before.headers["BON1"] = <<>>
    /\ Len(headers["BON1"]["N1"]) = 1
    /\ headers["BON1"]["N1"][1].phone_id = req[s].device_id
    /\ req[s].device_id # req[t].device_id

\* The document carries a document number.
Numbered(doc) == "NUM_BON" \in DOMAIN doc.header /\ doc.header.NUM_BON # ""

\* The numbered documents of a list, each occurrence counted.
NumberedIn(l) == {i \in DOMAIN l : Numbered(l[i])}

RECURSIVE LinesFrom(_, _)
\* The lines of the numbered documents of list l from position i on.
LinesFrom(l, i) ==
  IF i > Len(l) THEN 0
  ELSE (IF Numbered(l[i]) THEN Len(l[i].items) ELSE 0) + LinesFrom(l, i + 1)

\* C13: the response of a committed batch carries, per family, a header count
\* equal to the number of its documents that have a document number (each
\* occurrence, inserted or overwritten) and a line count equal to the total
\* number of lines of those documents; skipped documents count in neither.
C13_ResponseCounts ==
  \A s \in Slots :
    (req[s].kind = "sync" /\ req[s].status = 200) =>
      /\ req[s].stats.updatedBon1 = Cardinality(NumberedIn(req[s].payload.bon1))
      /\ req[s].stats.insertedBon2 = LinesFrom(req[s].payload.bon1, 1)
      /\ req[s].stats.updatedBon1Temp = Cardinality(NumberedIn(req[s].payload.bon1_temp))
      /\ req[s].stats.insertedBon2Temp = LinesFrom(req[s].payload.bon1_temp, 1)

\* C13 witness: a committed batch of three sales documents, the second without
\* a number, over a store that already held a header for the first, answered
\* with 2 headers and 3 lines for sales and 1 header and 1 line for orders.
C13_Witness ==
  \E s \in Slots :
    /\ req[s].kind = "sync" /\ req[s].status = 200
    /\ Len(req[s].payload.bon1) = 3
    /\ ~Numbered(req[s].payload.bon1[2])
    /\ "N1" \in DOMAIN req[s].before.headers["BON1"]
    /\ req[s].stats = [updatedBon1 |-> 2, insertedBon2 |-> 3,
                       updatedBon1Temp |-> 1, insertedBon2Temp |-> 1]

\* The store is what one committed submission of batch p from device d leaves
\* when made on the store o: one device row for d, one fallback account, one
\* sample if p carries both coordinates, the headers and lines of p's numbered
\* documents, and every other row as in o (timestamps and the generated account
\* id left aside).
SubmittedOnce(o, p, d) ==
  /\ DOMAIN phones = DOMAIN o.phones \cup {d}
  /\ \A e \in DOMAIN o.phones :
       /\ phones[e].client_id = o.phones[e].client_id
       /\ phones[e].phone_name = o.phones[e].phone_name
  /\ IF FallbackRows(o.clients) = {}
       THEN /\ Cardinality(FallbackRows(clients)) = 1
            /\ clients \ FallbackRows(clients) = o.clients
       ELSE clients = o.clients
  /\ \E c \in FallbackRows(clients) :
       d \notin DOMAIN o.phones => phones[d].client_id = c.client_id
  /\ locations = o.locations \o
       (IF "latitude" \in DOMAIN p.device /\ "longitude" \in DOMAIN p.device
          THEN <<[phone_id |-> d, latitude |-> p.device.latitude,
                  longitude |-> p.device.longitude]>>
          ELSE <<>>)
  /\ \A f \in Fams :
       /\ DOMAIN headers[f] = DOMAIN o.headers[f] \cup NumbersIn(p, f)
       /\ \A n \in DOMAIN headers[f] \ NumbersIn(p, f) :
            headers[f][n] = o.headers[f][n] /\ RowsOf(items[f], n) = RowsOf(o.items[f], n)
       /\ \A n \in NumbersIn(p, f) :
            /\ Len(headers[f][n]) = 1
            /\ Carries(headers[f][n][1], LastDocOf(p, f, n).header)
            /\ headers[f][n][1].phone_id = d
            /\ StoredAs(RowsOf(items[f], n), LastDocOf(p, f, n))

\* C14: when a batch commits, after any number of attempts of the same batch
\* that failed, the store it was received on is the store as it was before the
\* first failed attempt (the failed attempts left no row), and the committed
\* result is that of one submission made on that store.
C14_RetryConverges ==
  \A s \in Slots :
    (req[s].kind = "sync" /\ req[s].status = 200 /\ req[s].seq = commits) =>
      /\ req[s].before = req[s].origin
      /\ SubmittedOnce(req[s].origin, req[s].payload, req[s].device_id)

\* C14 witness: a batch with coordinates and documents in both families
\* committed on its retry, after an attempt that failed once it had taken an
\* account id.
C14_Witness ==
  \E s \in Slots :
    /\ req[s].kind = "sync" /\ req[s].status = 200 /\ req[s].seq = commits
    /\ req[s].attempts >= 1
    /\ req[s].stats.updatedBon1 >= 2
    /\ req[s].stats.insertedBon2Temp >= 1
    /\ Len(locations) = 1
    /\ \E c \in FallbackRows(clients) : c.client_id > 4

\* C15 as claimed: a validated sync batch whose store operation failed
\* (acquiring the connection and opening the transaction included) is answered,
\* and with a server error: once its handler has ended the caller holds a 500.
C15_FailureAnswered500 ==
  \A s \in Slots :
    (req[s].kind = "sync" /\ req[s].device_id # NULL /\ req[s].err # "" /\ req[s].pc = "done") =>
      req[s].status = 500

\* The request carries a password and a username or an email.
HasCredentials(body) ==
  /\ "password" \in DOMAIN body /\ body.password # ""
  /\ \/ "username" \in DOMAIN body /\ body.username # ""
     \/ "email" \in DOMAIN body /\ body.email # ""

\* The accounts the request names: by username when it carries one, else by email.
AccountsNamed(body) ==
  IF "username" \in DOMAIN body /\ body.username # ""
    THEN {c \in clients : c.username = body.username}
    ELSE {c \in clients : c.email = body.email}

\* The request names a device whose row, when the request was received,
\* belonged to an account other than c.
NamesForeignDevice(r, c) ==
  /\ "phone_id" \in DOMAIN r.body /\ r.body.phone_id # ""
  /\ r.body.phone_id \in DOMAIN r.before.phones
  /\ r.before.phones[r.body.phone_id].client_id # c.client_id

\* A phone-auth request with credentials has been answered.
Answered(r) == r.kind = "auth" /\ r.pc = "done" /\ r.status = 200 /\ HasCredentials(r.body)

SuppliedName(device) ==
  IF "name" \in DOMAIN device /\ device.name # "" THEN device.name
  ELSE IF "device_name" \in DOMAIN device /\ device.device_name # "" THEN device.device_name
  ELSE NULL

\* C17 as claimed: a device row created for an unknown identifier, by a
\* committed sync or by a phone-auth registration, carries the supplied name
\* when one is given and non-empty, and the device identifier itself otherwise.
C17_NameOrIdentifier ==
  \A s \in Slots :
    /\ (/\ req[s].kind = "sync" /\ req[s].status = 200 /\ req[s].seq = commits
        /\ req[s].device_id \notin DOMAIN req[s].before.phones) =>
         phones[req[s].device_id].phone_name =
           IF SuppliedName(req[s].payload.device) # NULL
             THEN SuppliedName(req[s].payload.device)
             ELSE req[s].device_id
    /\ (/\ req[s].kind = "auth" /\ req[s].pc = "done" /\ req[s].code = 200
        /\ "phone_id" \in DOMAIN req[s].body
        /\ req[s].body.phone_id \notin DOMAIN req[s].before.phones
        /\ req[s].body.phone_id \in DOMAIN phones) =>
         phones[req[s].body.phone_id].phone_name =
           IF DeviceNameTrimmed(req[s].body) # NULL
             THEN DeviceNameTrimmed(req[s].body)
             ELSE req[s].body.phone_id

\* A committed sync batch for a device that had a row when it was received.
SyncOfKnown(r) ==
  /\ r.kind = "sync" /\ r.status = 200 /\ r.seq = commits
  /\ r.device_id \in DOMAIN r.before.phones

\* An answered phone-auth call for a device that had a row when it was
\* received, none of its statements having failed.
AuthOfKnown(r) ==
  /\ r.kind = "auth" /\ r.pc = "done" /\ r.status = 200 /\ r.err = ""
  /\ r.code \in {200, 360}
  /\ "phone_id" \in DOMAIN r.body
  /\ r.body.phone_id \in DOMAIN r.before.phones

\* The phone-auth call r renames: its trimmed name is non-empty, differs from
\* the stored one, and the device belongs to the authenticating account.
AuthRenames(r) ==
  /\ DeviceNameTrimmed(r.body) # NULL
  /\ DeviceNameTrimmed(r.body) # r.before.phones[r.body.phone_id].phone_name
  /\ r.before.phones[r.body.phone_id].client_id = r.cid

FromHeader(h, f, default, emptyToo) ==
  IF f \notin DOMAIN h THEN default
  ELSE IF emptyToo /\ h[f] = "" THEN default
  ELSE h[f]

\* The header row a header h synced by device d stands for, with no regard to
\* what the store held.
DerivedHeader(h, d) ==
  [NUM_BON |-> h.NUM_BON,
   CODE_CLIENT |-> FromHeader(h, "CODE_CLIENT", NULL, TRUE),
   TOT_HT |-> FromHeader(h, "TOT_HT", NULL, FALSE),
   LATITUDE |-> FromHeader(h, "LATITUDE", "0", FALSE),
   LIVRER |-> FromHeader(h, "LIVRER", "0", FALSE),
   CODE_DEPOT |-> FromHeader(h, "CODE_DEPOT", NULL, TRUE),
   phone_id |-> d]

\* The last document of list l numbered n.
LastNumbered(l, n) ==
  l[CHOOSE i \in NumberedIn(l) :
      /\ l[i].header.NUM_BON = n
      /\ \A j \in NumberedIn(l) : l[j].header.NUM_BON = n => j <= i]

\* The numbers of list l that had a header in table before.
Resynced(l, before) ==
  {l[i].header.NUM_BON : i \in NumberedIn(l)} \cap
    {n \in DOMAIN before : before[n] # <<>>}

\* C19: when a committed batch syncs a document number that already had a
\* header, the header afterwards is exactly the row derived from the incoming
\* header alone, absent fields at their defaults, and it belongs to the syncing
\* device: nothing of the previous header survives.
C19_ResyncOverwritesHeader ==
  \A s \in Slots :
    (req[s].kind = "sync" /\ req[s].status = 200 /\ req[s].seq = commits) =>
      \A f \in Fams :
        \A n \in Resynced(ListOf(req[s].payload, f), req[s].before.headers[f]) :
          headers[f][n] =
            <<DerivedHeader(LastNumbered(ListOf(req[s].payload, f), n).header,
                            req[s].device_id)>>

\* C19 witness: a committed batch of another device resynced a number whose
\* previous header carried a depot and a delivery flag the incoming header
\* lacks; the depot is now NULL, the flag "0" and the header is the new device's.
C19_Witness ==
  \E s \in Slots, f \in Fams :
    /\ req[s].kind = "sync" /\ req[s].status = 200 /\ req[s].seq = commits
    /\ \E n \in Resynced(ListOf(req[s].payload, f), req[s].before.headers[f]) :
         LET old == req[s].before.headers[f][n][1]
             h == LastNumbered(ListOf(req[s].payload, f), n).header
         IN /\ old.CODE_DEPOT # NULL /\ old.LIVRER = "1"
            /\ old.phone_id # req[s].device_id
            /\ "CODE_DEPOT" \notin DOMAIN h /\ "LIVRER" \notin DOMAIN h
            /\ headers[f][n][1].CODE_DEPOT = NULL
            /\ headers[f][n][1].LIVRER = "0"
            /\ headers[f][n][1].phone_id = req[s].device_id

\* The documents of a batch skipped for lacking a document number, each
\* occurrence counted, over the two lists.
SkippedIn(p) ==
  Cardinality(DOMAIN p.bon1 \ NumberedIn(p.bon1))
    + Cardinality(DOMAIN p.bon1_temp \ NumberedIn(p.bon1_temp))

\* C20: the success response of a committed batch that skipped documents for
\* lacking a document number reports how many it skipped, in a counter of its
\* own next to the header and line counts.
C20_SkippedReported ==
  \A s \in Slots :
    (req[s].kind = "sync" /\ req[s].status = 200 /\ SkippedIn(req[s].payload) > 0) =>
      \E c \in DOMAIN req[s].stats \ DOMAIN ZeroStats :
        req[s].stats[c] = SkippedIn(req[s].payload)

\* The state of the batch life cycle a request is in, by the statement it awaits:
\* 0 Start, 1 DeviceResolved (the location insert is next), 2 the documents are
\* being processed, 3 DocumentsProcessed (the commit is next), 4 the rollback is
\* next, 5 ended.
Phase(r) ==
  CASE r.pc \in {"getConnection", "beginTransaction", "selectClient", "insertClient", "upsertPhone"} -> 0
    [] r.pc = "insertLocation" -> 1
    [] r.pc \in {"upsertHeader", "deleteItems", "insertItem"} -> 2
    [] r.pc = "commit" -> 3
    [] r.pc = "rollback" -> 4
    [] OTHER -> 5

\* What the open transaction of r has written.
WroteDevice(r) == r.device_id \in DOMAIN r.ov.phones
WroteLocation(r) == r.ov.locations # <<>>
WroteDocument(r) == \E f \in Fams : DOMAIN r.ov.headers[f] # {} \/ DOMAIN r.ov.items[f] # {}

Committed(r) == r.pc = "done" /\ r.status = 200 /\ r.seq > 0 /\ r.err = ""
Aborted(r) == r.pc = "done" /\ r.status # 200 /\ r.seq = 0 /\ r.err # ""

\* The writes of a validated batch r respect the order of the life cycle.
OrderedWrites(r) ==
  /\ (WroteLocation(r) \/ WroteDocument(r)) => WroteDevice(r)
  /\ Phase(r) <= 1 => ~WroteDocument(r)
  /\ Phase(r) = 0 => ~WroteLocation(r)
  /\ Phase(r) \in {2, 3} => (WroteDevice(r) /\ (WroteLocation(r) <=> HasCoordinates(r.payload.device)))
  /\ (WroteDocument(r) /\ HasCoordinates(r.payload.device)) => WroteLocation(r)
  /\ Phase(r) = 5 => (r.ov = NoWrites /\ ~r.inTx /\ (Committed(r) # Aborted(r)))

\* One step of a validated batch from r to q moves forward in the life cycle:
\* the location step is entered from Start exactly when coordinates are
\* present, the batch ends only from the commit or from a failure, and the
\* store changes only at the commit.
ForwardStep(r, q) ==
  /\ Phase(q) >= Phase(r)
  /\ (Phase(r) = 0 /\ Phase(q) \in {1, 2, 3}) =>
        (Phase(q) = 1 <=> HasCoordinates(r.payload.device))
  /\ Phase(q) = 1 => Phase(r) = 0
  /\ (Phase(q) = 3 /\ Phase(r) # 3) => Phase(r) \in {0, 1, 2}
  /\ Committed(q) => r.pc = "commit"
  /\ Aborted(q) => r.pc \in {"rollback", "getConnection"}
  /\ Phase(r) = 3 => Phase(q) \in {4, 5}
  /\ Phase(r) = 4 => Aborted(q)

\* C21: every sync batch that passes validation goes through Start, device
\* resolved, location recorded (only with coordinates), documents processed in
\* that order and ends either committed or aborted, never both; no location
\* sample or document is written before the device, no document before the
\* location step, and once the batch has ended nothing more is written.
C21_LifeCycleOrder ==
  [][ /\ \A s \in Slots :
           (req'[s].kind = "sync" /\ req'[s].status # 400) =>
             /\ OrderedWrites(req'[s])
             /\ (req[s].kind = "sync" /\ req[s].id = req'[s].id /\ req[s] # req'[s]) =>
                  /\ ForwardStep(req[s], req'[s])
                  /\ UNCHANGED dbvars \/ (At(s, "commit") /\ Committed(req'[s]))
      /\ ((\A s \in Slots : ~Active(s)) /\ (\A s \in Slots : req'[s].pc = "done")) =>
           UNCHANGED dbvars
    ]_vars

\* C21 witness: a batch with coordinates and documents is about to commit, its
\* transaction holding the device, then the location sample, then the documents.
C21_Witness ==
  \E s \in Slots :
    /\ At(s, "commit")
    /\ HasCoordinates(req[s].payload.device)
    /\ WroteDevice(req[s]) /\ WroteLocation(req[s]) /\ WroteDocument(req[s])
    /\ req[s].stats.insertedBon2 >= 1

\* The documents of family f that batch r has entered so far, by position: all
\* of them once the commit is awaited, all sales once an order is being
\* processed, and within the family being processed those up to the current one.
Entered(r, f) ==
  LET l == ListOf(r.payload, f)
  IN IF Phase(r) = 3 THEN NumberedIn(l)
     ELSE IF Phase(r) # 2 THEN {}
     ELSE IF f = r.fam THEN {i \in NumberedIn(l) : i <= r.di}
     ELSE IF f = "BON1" THEN NumberedIn(l)
     ELSE {}

\* The last document of list l numbered n among the positions in S.
LastAmong(l, S, n) ==
  l[CHOOSE i \in S : l[i].header.NUM_BON = n /\ \A j \in S : l[j].header.NUM_BON = n => j <= i]

\* C22: within one batch all sales are processed before any order and the
\* documents of a family in the order submitted: at every point the headers
\* written by the batch are those of a prefix of its sales followed, once the
\* sales are through, by a prefix of its orders, each header being the one of
\* the last occurrence entered so far; so after the commit a number that occurs
\* several times in a family holds the header and the lines of its last occurrence.
C22_SubmittedOrderLastWins ==
  \A s \in Slots :
    /\ (At(s, "upsertHeader") \/ At(s, "deleteItems") \/ At(s, "insertItem") \/ At(s, "commit")) =>
         \A f \in Fams :
           LET l == ListOf(req[s].payload, f)
               cur == IF req[s].pc = "upsertHeader" /\ f = req[s].fam THEN {req[s].di} ELSE {}
               done == Entered(req[s], f) \ cur
           IN /\ DOMAIN req[s].ov.headers[f] = {l[i].header.NUM_BON : i \in done}
              /\ \A n \in DOMAIN req[s].ov.headers[f] :
                   req[s].ov.headers[f][n] =
                     <<DerivedHeader(LastAmong(l, done, n).header, req[s].device_id)>>
    /\ (req[s].kind = "sync" /\ req[s].status = 200 /\ req[s].seq = commits) =>
         \A f \in Fams :
           \A i \in NumberedIn(ListOf(req[s].payload, f)) :
             LET l == ListOf(req[s].payload, f)
                 n == l[i].header.NUM_BON
             IN /\ headers[f][n] = <<DerivedHeader(LastNumbered(l, n).header, req[s].device_id)>>
                /\ StoredAs(RowsOf(items[f], n), LastNumbered(l, n))

\* C22 witness: a committed batch submitted the same sale number twice, first
\* bare with one line, then full with two lines; the header and the two lines
\* stored are those of the second occurrence.
C22_Witness ==
  \E s \in Slots :
    /\ req[s].kind = "sync" /\ req[s].status = 200 /\ req[s].seq = commits
    /\ Len(req[s].payload.bon1) = 2
    /\ req[s].payload.bon1[1].header.NUM_BON = req[s].payload.bon1[2].header.NUM_BON
    /\ req[s].payload.bon1[1] # req[s].payload.bon1[2]
    /\ headers["BON1"]["N1"][1].CODE_DEPOT = "DEP1"
    /\ Len(items["BON1"]["N1"]) = 2

\* The step commits the batch of slot s.
CommitsIn(s) == At(s, "commit") /\ req'[s].pc = "done" /\ req'[s].status = 200

\* C23: the committed line set of a document, which is all another connection
\* or a restart after a crash or an abort can observe, changes only in the step
\* that commits a batch containing the document, and then from the complete
\* previous set to the complete new set of that batch: the state with the old
\* lines deleted and the new lines partly inserted is never committed.
C23_LineSetNeverPartial ==
  [][ \A f \in Fams : \A n \in Keys :
        RowsOf(items'[f], n) # RowsOf(items[f], n) =>
          \E s \in Slots :
            /\ CommitsIn(s)
            /\ \E i \in NumberedIn(ListOf(req[s].payload, f)) :
                 ListOf(req[s].payload, f)[i].header.NUM_BON = n
            /\ StoredAs(RowsOf(items'[f], n), LastNumbered(ListOf(req[s].payload, f), n))
    ]_vars

\* C23 witness: a batch resyncing a stored document has deleted its old lines
\* and inserted the first of two new lines inside its transaction, while the
\* committed line set is still the complete previous one.
C23_Witness ==
  \E s \in Slots : \E f \in Fams :
    /\ At(s, "insertItem") /\ req[s].fam = f /\ req[s].li = 2
    /\ Len(ItemsOf(CurDoc(req[s]))) = 2
    /\ LET n == HeaderOf(CurDoc(req[s])).NUM_BON
       IN /\ n \in DOMAIN lastSync[f]
          /\ Len(RowsOf(items[f], n)) >= 1
          /\ StoredAs(RowsOf(items[f], n), lastSync[f][n].doc)
          /\ Len(req[s].ov.items[f][n]) = 1
          /\ req[s].ov.items[f][n] # RowsOf(items[f], n)

\* The phone-auth call r has answered, its credentials were accepted for an
\* account, and the device it names belonged to another account when the call
\* was received.
ForeignDeviceCall(r) ==
  /\ r.kind = "auth" /\ r.pc = "done" /\ r.cid # 0
  /\ "phone_id" \in DOMAIN r.body
  /\ r.body.phone_id \in DOMAIN r.before.phones
  /\ r.before.phones[r.body.phone_id].client_id # r.cid

RacedRegistration(s, t) ==
  /\ s # t
  /\ req[s].kind = "auth" /\ req[t].kind = "auth"
  /\ req[s].pc = "done" /\ req[t].pc = "done"
  /\ req[s].id \in req[t].overlap \/ req[t].id \in req[s].overlap
  /\ req[s].cid # 0 /\ req[t].cid # 0 /\ req[s].cid # req[t].cid
  /\ "phone_id" \in DOMAIN req[s].body /\ "phone_id" \in DOMAIN req[t].body
  /\ req[s].body.phone_id = req[t].body.phone_id
  /\ req[s].body.phone_id \notin DOMAIN req[s].before.phones
  /\ req[s].body.phone_id \notin DOMAIN req[t].before.phones
  /\ req[s].err # "store" /\ req[t].err # "store"

\* C25 as claimed: when two phone-auth calls of different accounts race to
\* register the same new phone identifier, one of the two accounts owns the
\* device afterwards and code 200 is answered only to the call of that account.
C25_OnlyOwnerAnswered200 ==
  \A s, t \in Slots :
    RacedRegistration(s, t) =>
      LET id == req[s].body.phone_id
      IN /\ id \in DOMAIN phones
         /\ phones[id].client_id \in {req[s].cid, req[t].cid}
         /\ \A u \in {s, t} : req[u].code = 200 => phones[id].client_id = req[u].cid

\* The identifiers of the fallback accounts of a clients table.
FallbackIds(table) == {c.client_id : c \in FallbackRows(table)}

\* The devices a sync has bound to a fallback account.
BoundToFallback == {d \in DOMAIN phones : phones[d].client_id \in FallbackIds(clients)}

\* The phone-auth call r has answered, its credentials were accepted for an
\* account that is not a fallback account, and the device it names was bound to
\* a fallback account when the call was received.
CallForSyncedDevice(r) ==
  /\ r.kind = "auth" /\ r.pc = "done" /\ r.cid # 0
  /\ "phone_id" \in DOMAIN r.body
  /\ r.body.phone_id \in DOMAIN r.before.phones
  /\ r.before.phones[r.body.phone_id].client_id \in FallbackIds(r.before.clients)
  /\ r.cid \notin FallbackIds(r.before.clients)

TakenOver(r, f) ==
  {n \in Resynced(ListOf(r.payload, f), r.before.headers[f]) :
     r.before.headers[f][n][1].phone_id # r.device_id}

\* C27: a sync batch is never stopped for containing a document another device
\* owns: when none of its statements fails it commits, and after the commit
\* every document number it contains records the syncing device as its owner
\* and holds exactly the lines of the batch, whichever device owned it before.
C27_AnyDeviceOverwrites ==
  \A s \in Slots :
    (req[s].kind = "sync" /\ req[s].pc = "done" /\ req[s].status # 400 /\ req[s].err = "") =>
      /\ req[s].status = 200 /\ req[s].seq = commits
      /\ \A f \in Fams : \A n \in NumbersIn(req[s].payload, f) :
           /\ \A i \in DOMAIN headers[f][n] : headers[f][n][i].phone_id = req[s].device_id
           /\ Len(RowsOf(items[f], n)) = Len(LastNumbered(ListOf(req[s].payload, f), n).items)
           /\ \A i \in DOMAIN RowsOf(items[f], n) :
                items[f][n][i] = ItemParams(LastNumbered(ListOf(req[s].payload, f), n).items[i],
                                            LastNumbered(ListOf(req[s].payload, f), n).header)

\* C27 witness: a committed batch of one device contained a number whose header
\* belonged to another device and whose lines were different; the header is
\* now the syncing device's and the lines are the batch's.
C27_Witness ==
  \E s \in Slots : \E f \in Fams :
    /\ req[s].kind = "sync" /\ req[s].status = 200 /\ req[s].seq = commits
    /\ \E n \in TakenOver(req[s], f) :
         /\ headers[f][n][1].phone_id = req[s].device_id
         /\ RowsOf(req[s].before.items[f], n) # <<>>
         /\ RowsOf(items[f], n) # RowsOf(req[s].before.items[f], n)

\* C28: a committed sync batch changes header and line rows only under the
\* (family, document number) pairs it contains with a document number: every
\* other pair holds the header and the lines it held when the batch was
\* received, in particular the order with the number of a synced sale and the
\* sale with the number of a synced order.
C28_OnlySubmittedDocumentsChange ==
  \A s \in Slots :
    (req[s].kind = "sync" /\ req[s].status = 200 /\ req[s].seq = commits) =>
      \A f \in Fams : \A n \in Keys \ NumbersIn(req[s].payload, f) :
        /\ RowsOf(headers[f], n) = RowsOf(req[s].before.headers[f], n)
        /\ RowsOf(items[f], n) = RowsOf(req[s].before.items[f], n)

\* C28 witness: a committed batch resynced sale N1 with other contents over a
\* store holding the order N1 and the sale N2; the sale N1 changed, the order
\* N1 and the sale N2 are as before.
C28_Witness ==
  \E s \in Slots :
    /\ req[s].kind = "sync" /\ req[s].status = 200 /\ req[s].seq = commits
    /\ NumbersIn(req[s].payload, "BON1") = {"N1"}
    /\ NumbersIn(req[s].payload, "BON1_TEMP") = {}
    /\ RowsOf(req[s].before.headers["BON1_TEMP"], "N1") # <<>>
    /\ RowsOf(req[s].before.items["BON1_TEMP"], "N1") # <<>>
    /\ RowsOf(req[s].before.headers["BON1"], "N2") # <<>>
    /\ RowsOf(items["BON1"], "N1") # RowsOf(req[s].before.items["BON1"], "N1")
    /\ headers["BON1_TEMP"] = req[s].before.headers["BON1_TEMP"]
    /\ items["BON1_TEMP"] = req[s].before.items["BON1_TEMP"]

\* C29 as claimed: when a detail read of a document that a committed sync had
\* written runs concurrently with a resync of that document, the header and the
\* line list it answers with come from the same committed sync.
C29_DetailFromOneSync ==
  \A s \in Slots :
    (req[s].kind = "read" /\ req[s].pc = "done" /\ req[s].status = 200 /\ req[s].hseq > 0) =>
      req[s].hseq = req[s].iseq

\* The sync batches that hold a pooled connection.
Holders == {s \in Slots : req[s].kind = "sync" /\ req[s].hasConn}

\* C30: a sync batch acquires at most one pooled connection and releases it
\* exactly once, when it ends, on the commit path and on every failure path,
\* a failing rollback included: a batch that has ended has released what it
\* acquired, a running batch has released nothing, and the connections out of
\* the pool are exactly those of the running batches, so none is left out once
\* the batches have ended, however many of them failed.
C30_ConnectionReleasedOnce ==
  /\ \A s \in Slots :
       req[s].kind = "sync" =>
         /\ req[s].acquires \in {0, 1}
         /\ req[s].hasConn <=> (req[s].acquires = 1 /\ req[s].pc # "done")
         /\ req[s].releases = IF req[s].pc = "done" THEN req[s].acquires ELSE 0
         /\ req[s].pc = "getConnection" => req[s].acquires = 0
         /\ (Active(s) /\ req[s].pc # "getConnection") => req[s].acquires = 1
         /\ req[s].status = 200 => req[s].acquires = 1
  /\ leased = Cardinality(Holders)
  /\ leased <= connectionLimit
  /\ (\A s \in Slots : ~Active(s)) => leased = 0

\* C30 witness: a batch failed again on a retry and its rollback failed too; it
\* answered 500, released its connection once and the pool is whole.
C30_Witness ==
  \E s \in Slots :
    /\ req[s].kind = "sync" /\ req[s].pc = "done" /\ req[s].status = 500
    /\ req[s].rollbackFailed
    /\ req[s].attempts >= 1
    /\ req[s].acquires = 1 /\ req[s].releases = 1
    /\ leased = 0

====
